---- MODULE Spec2Model ----
(***************************************************************************)
(* Headline-Harvester: the resilient fetch (NewsScraper.fetch_content),    *)
(* the selector-based extraction (NewsHeadlineScraper.extract_headlines,   *)
(* NewsScraper.parse_html_content) and the persistence step               *)
(* (save_headlines_txt / save_headlines_json / save_headlines_to_file and  *)
(* their callers).                                                         *)
(*                                                                         *)
(* Strings whose content matters (URLs, element texts) are sequences of    *)
(* one-character strings, so that parsing, stripping and length are        *)
(* computed and not assumed.                                               *)
(***************************************************************************)
EXTENDS Integers, Sequences, FiniteSets, TLC

VARIABLES
    \* ---- NewsScraper.fetch_content ----
    url,          \* the url argument
    max_retries,  \* self.config['max_retries']
    retry_delay,  \* self.config['retry_delay']
    attempt,      \* loop variable of "for attempt in range(max_retries)"
    responses,    \* outcomes of the GETs issued so far, in order
    delays,       \* arguments of the time.sleep calls so far, in order
    log,          \* the GET / SLEEP events in the order they happened
    fpc,          \* position in fetch_content
    fresult       \* value returned by fetch_content

fetchVars == <<url, max_retries, retry_delay, attempt, responses, delays, log, fpc, fresult>>

VARIABLES
    \* ---- extract_headlines (scraper.py) / parse_html_content ----
    prog,           \* which of the two functions runs
    content,        \* the html_content / content argument
    selectors,      \* self.selectors / self.config['selectors']['html']
    selIdx,         \* position of the selector loop (1-based)
    elements,       \* elements = soup.select(selector)
    elemIdx,        \* position of the element loop (1-based)
    headlines,      \* list built by parse_html_content
    headlines_data, \* set of (text, url) built by extract_headlines
    xraised,        \* the except branch of the function ran
    xpc,            \* position in the function
    xresult         \* value returned

extractVars == <<prog, content, selectors, selIdx, elements, elemIdx, headlines,
                 headlines_data, xraised, xpc, xresult>>

VARIABLES
    \* ---- persistence: NewsScraper.run_scraper (after its url loop) and
    \*      main of scraper.py ----
    sprog,          \* "run_scraper" or "main"
    output_format,  \* self.config['output_format']
    nHeadlines,     \* len(all_headlines) / len(headlines)
    fetched,        \* main: html_content is truthy
    writes,         \* the writes attempted: which file, and how it ended
    seen,           \* what each save call gave back to its caller
    logged,         \* logger records emitted by the save functions
    report,         \* what the caller finally reports
    spc             \* position

saveVars == <<sprog, output_format, nHeadlines, fetched, writes, seen, logged, report, spc>>

VARIABLES
    \* ---- NewsScraper.run_scraper / scrape_url ----
    target_urls,    \* self.config['target_urls']
    urlIdx,         \* position of "for url in target_urls" (1-based)
    visited,        \* the urls scrape_url was called with, in call order
    perUrl,         \* what each scrape_url call returned, and how it went
    all_headlines,  \* all_headlines
    results,        \* results, the mapping that is returned
    pauses,         \* number of time.sleep(1) calls of the loop
    rpc             \* position in run_scraper

runVars == <<target_urls, urlIdx, visited, perUrl, all_headlines, results, pauses, rpc>>

vars == <<fetchVars, extractVars, saveVars, runVars>>

None == <<"None">>

\* ------------------------------------------------------------------------
\* Bounds
\* ------------------------------------------------------------------------
MaxRetriesBound == 3     \* max_retries ranges over 0..MaxRetriesBound
MaxDelayBound == 2       \* retry_delay ranges over 1..MaxDelayBound

\* ------------------------------------------------------------------------
\* urllib.parse.urlparse, as far as is_valid_url uses it
\* ------------------------------------------------------------------------
Letters == {"h", "t", "p", "m", "x"}
SchemeChars == Letters \cup {"1", "+", "-", "."}
NetlocEnd == {"/", "?", "#"}

\* index of the first position of s holding a character of cs, 0 when none
RECURSIVE FindFrom(_, _, _)
FindFrom(s, cs, i) ==
    IF i > Len(s) THEN 0
    ELSE IF s[i] \in cs THEN i
    ELSE FindFrom(s, cs, i + 1)

Tail2(s, i) == IF i > Len(s) THEN <<>> ELSE SubSeq(s, i, Len(s))

\* urlsplit: scheme is the text before the first ':' when it starts with a
\* letter and holds scheme characters only; netloc is what follows a
\* leading '//' up to the next '/', '?' or '#'.  A netloc with an unbalanced
\* bracket raises ValueError.
urlparse(u) ==
    LET i == FindFrom(u, {":"}, 1)
        hasScheme == /\ i > 1
                     /\ u[1] \in Letters
                     /\ \A k \in 1..(i - 1) : u[k] \in SchemeChars
        scheme == IF hasScheme THEN SubSeq(u, 1, i - 1) ELSE <<>>
        rest == IF hasScheme THEN Tail2(u, i + 1) ELSE u
        hasNetloc == Len(rest) >= 2 /\ rest[1] = "/" /\ rest[2] = "/"
        d == IF hasNetloc THEN FindFrom(rest, NetlocEnd, 3) ELSE 0
        netloc == IF ~hasNetloc THEN <<>>
                  ELSE IF d = 0 THEN Tail2(rest, 3)
                  ELSE SubSeq(rest, 3, d - 1)
        path == IF ~hasNetloc THEN rest
                ELSE IF d = 0 THEN <<>>
                ELSE Tail2(rest, d)
        chars == {netloc[k] : k \in 1..Len(netloc)}
        raises == ("[" \in chars) # ("]" \in chars)
    IN [scheme |-> scheme, netloc |-> netloc, path |-> path, raises |-> raises]

is_valid_url_any(u) ==
    LET result == urlparse(u)
    IN IF result.raises THEN FALSE
       ELSE result.scheme # <<>> \/ result.netloc # <<>>

\* return all([result.scheme, result.netloc]); except Exception: False
is_valid_url(u) ==
    LET result == urlparse(u)
    IN IF result.raises THEN FALSE
       ELSE result.scheme # <<>> /\ result.netloc # <<>>

\* The url arguments tried.
Urls ==
    { <<"h", "t", "t", "p", ":", "/", "/", "x", "/", "x">>,   \* http://x/x
      <<"h", "1", ":", "/", "/", "x">>,           \* h1://x
      <<"x", "/", "x">>,                          \* x/x     no scheme, no host
      <<"/", "/", "x", "/", "x">>,                \* //x/x   host, no scheme
      <<"h", ":", "/", "/", "/", "x">>,           \* h:///x  scheme, no host
      <<"h", ":", "x">>,                          \* h:x     scheme, no host
      <<"1", ":", "/", "/", "x">>,                \* 1://x   not a scheme
      <<"h", ":", "/", "/", "[", "x">>,           \* h://[x  urlparse raises
      <<>> }                                      \* empty

\* ------------------------------------------------------------------------
\* What one session.get(...) followed by raise_for_status() can produce
\* ------------------------------------------------------------------------
Http(status, text) == [kind |-> "http", status |-> status, text |-> text]
Exc(kind) == [kind |-> kind, status |-> 0, text |-> ""]

Outcomes ==
    { Http(200, "page"), Http(200, ""), Http(304, ""), Http(404, "nf"),
      Http(429, "busy"),
      Http(500, "err"), Http(503, "unavail"),
      Exc("ConnectionError"), Exc("Timeout") }

\* what fetch_content returns: response.text, or None
ReturnText(text) == [none |-> FALSE, text |-> text]
ReturnNone == [none |-> TRUE, text |-> ""]

\* response.raise_for_status() raises HTTPError for 4xx and 5xx
RaisesForStatus(r) == r.kind = "http" /\ r.status >= 400 /\ r.status < 600

\* the try body raised a requests.exceptions.RequestException
Failed(r) == r.kind # "http" \/ RaisesForStatus(r)

SleepsAfter_always(a, m) == TRUE

\* if attempt < self.config['max_retries'] - 1
SleepsAfter(a, m) == a < m - 1

\* time.sleep(self.config['retry_delay'])
SleepTime(a, base) == base

\* ------------------------------------------------------------------------
\* NewsScraper.fetch_content
\* ------------------------------------------------------------------------
InitFetch ==
    /\ url \in Urls
    /\ max_retries \in 0..MaxRetriesBound
    /\ retry_delay \in 1..MaxDelayBound
    /\ attempt = 0
    /\ responses = <<>>
    /\ delays = <<>>
    /\ log = <<>>
    /\ fpc = "start"
    /\ fresult = ReturnNone

\* if not self.is_valid_url(url): return None
FetchValidate ==
    /\ fpc = "start"
    /\ IF is_valid_url(url)
       THEN fpc' = "loop" /\ fresult' = fresult
       ELSE fpc' = "done" /\ fresult' = ReturnNone
    /\ UNCHANGED <<url, max_retries, retry_delay, attempt, responses, delays, log>>

\* one iteration of the for loop: the GET, raise_for_status, and on a
\* RequestException the conditional sleep
FetchAttempt ==
    /\ fpc = "loop"
    /\ attempt < max_retries
    /\ \E r \in Outcomes :
        /\ responses' = Append(responses, r)
        /\ IF ~Failed(r)
           THEN /\ fresult' = ReturnText(r.text)
                /\ fpc' = "done"
                /\ log' = Append(log, "GET")
                /\ UNCHANGED <<attempt, delays>>
           ELSE /\ attempt' = attempt + 1
                /\ IF SleepsAfter(attempt, max_retries)
                   THEN /\ delays' = Append(delays, SleepTime(attempt, retry_delay))
                        /\ log' = log \o <<"GET", "SLEEP">>
                   ELSE /\ delays' = delays
                        /\ log' = Append(log, "GET")
                /\ UNCHANGED <<fpc, fresult>>
    /\ UNCHANGED <<url, max_retries, retry_delay>>

\* the loop ran out: logger.error("All attempts failed"); return None
FetchExhausted ==
    /\ fpc = "loop"
    /\ attempt >= max_retries
    /\ fpc' = "done"
    /\ fresult' = ReturnNone
    /\ UNCHANGED <<url, max_retries, retry_delay, attempt, responses, delays, log>>



\* ------------------------------------------------------------------------
\* Documents, elements and selectors (bs4)
\* ------------------------------------------------------------------------
Whitespace == {" "}

RECURSIVE LStrip(_)
LStrip(s) == IF s # <<>> /\ s[1] \in Whitespace THEN LStrip(Tail(s)) ELSE s

RECURSIVE RStrip(_)
RStrip(s) ==
    IF s # <<>> /\ s[Len(s)] \in Whitespace
    THEN RStrip(SubSeq(s, 1, Len(s) - 1))
    ELSE s

\* str.strip()
Strip(s) == RStrip(LStrip(s))

\* element.get_text(): the text nodes of the element, concatenated
RECURSIVE get_text(_)
get_text(nodes) ==
    IF nodes = <<>> THEN <<>> ELSE Head(nodes) \o get_text(Tail(nodes))

\* element.get_text(strip=True): every text node stripped, empty ones
\* dropped, concatenated without separator
RECURSIVE get_text_strip(_)
get_text_strip(nodes) ==
    IF nodes = <<>> THEN <<>> ELSE Strip(Head(nodes)) \o get_text_strip(Tail(nodes))

T_Rally == <<"M","a","r","k","e","t","s"," ","r","a","l","l","y"," ","t","o","d","a","y">>
T_MarketUpdate == <<"M","a","r","k","e","t"," ","U","p","d","a","t","e">>
T_marketupdate == <<"m","a","r","k","e","t"," ","u","p","d","a","t","e">>
T_Big == <<"B","i","g">>
T_updates == <<" ","u","p","d","a","t","e","s">>
T_Bigupdate == <<"B","i","g"," ","u","p","d","a","t","e">>
T_Hi == <<"H","i">>
T_Breaking == <<"B","r","e","a","k","i","n","g"," ","N","e","w","s">>

H_a == <<"/", "a">>
H_b == <<"/", "b">>
H_c == <<"c">>
H_mail == <<"m", ":", "x">>
H_bad == <<"h", "t", "t", "p", ":", "/", "/", "[", "x">>

Elem(name, classes, nodes, href, parentA, childA) ==
    [name |-> name, classes |-> classes, nodes |-> nodes, href |-> href,
     parentA |-> parentA, childA |-> childA]

\* parentA: href of the nearest enclosing <a> (find_parent('a')), NoTag when
\* there is none; childA: href of the first <a> inside (find('a')).
NoTag == <<"NoTag">>

eA == Elem("a", {"promo"}, << <<" ">> \o T_Rally \o <<" ">> >>, H_a, NoTag, NoTag)
eB == Elem("a", {"promo", "headline"}, <<T_MarketUpdate>>, H_b, NoTag, NoTag)
eb == Elem("a", {"headline"}, <<T_marketupdate>>, H_c, NoTag, NoTag)
eC == Elem("h2", {"headline"}, <<T_Big, T_updates>>, None, H_a, H_c)
eHi == Elem("a", {"promo"}, <<T_Hi>>, H_a, NoTag, NoTag)
eBad == Elem("a", {"headline"}, <<T_Rally>>, H_bad, NoTag, NoTag)
eTen == Elem("a", {"promo"}, <<T_Bigupdate>>, H_mail, NoTag, NoTag)

Elements == {eA, eB, eb, eC, eHi, eBad, eTen}

Selector(tag, class) == [tag |-> tag, class |-> class]
SelPromo == Selector("a", "promo")          \* a.promo
SelAnyPromo == Selector("", "promo")        \* .promo
SelHeadline == Selector("", "headline")     \* .headline
SelH2 == Selector("h2", "")                 \* h2
SelBad == Selector("[", "")                 \* not a selector: select() raises

SelectRaises(sel) == sel.tag = "["

Matches(sel, e) ==
    /\ sel.tag = "" \/ sel.tag = e.name
    /\ sel.class = "" \/ sel.class \in e.classes

\* soup.select(selector): the matching elements in document order
Select(body, sel) == SelectSeq(body, LAMBDA e : Matches(sel, e))

\* ------------------------------------------------------------------------
\* urllib.parse.urljoin
\* ------------------------------------------------------------------------
UsesRelative == { <<>>, <<"h", "t", "t", "p">> }

RECURSIVE LastSlash(_, _)
LastSlash(s, i) == IF i = 0 THEN 0 ELSE IF s[i] = "/" THEN i ELSE LastSlash(s, i - 1)

Unparse(scheme, netloc, path) ==
    (IF scheme # <<>> THEN scheme \o <<":">> ELSE <<>>)
    \o (IF netloc # <<>> THEN <<"/", "/">> \o netloc ELSE <<>>)
    \o path

urljoinRaises(base, u) ==
    base # <<>> /\ u # <<>> /\ (urlparse(base).raises \/ urlparse(u).raises)

urljoin(base, u) ==
    IF base = <<>> THEN u
    ELSE IF u = <<>> THEN base
    ELSE LET b == urlparse(base)
             p == urlparse(u)
             scheme == IF p.scheme = <<>> THEN b.scheme ELSE p.scheme
             dir == SubSeq(b.path, 1, LastSlash(b.path, Len(b.path)))
         IN IF scheme # b.scheme \/ scheme \notin UsesRelative THEN u
            ELSE IF p.netloc # <<>> THEN Unparse(scheme, p.netloc, p.path)
            ELSE IF p.path = <<>> THEN Unparse(scheme, b.netloc, b.path)
            ELSE IF p.path[1] = "/" THEN Unparse(scheme, b.netloc, p.path)
            ELSE Unparse(scheme, b.netloc, dir \o p.path)

\* absolute_url.startswith('http')
StartsWithHttp(u) == Len(u) >= 4 /\ SubSeq(u, 1, 4) = <<"h", "t", "t", "p">>

\* target_url of NewsHeadlineScraper / source of parse_html_content
SourceUrl == <<"h", "t", "t", "p", ":", "/", "/", "x", "/", "n">>


\* ------------------------------------------------------------------------
\* Inputs of the extraction
\* ------------------------------------------------------------------------
MaxElems == 3            \* a document body has at most MaxElems elements

Bodies == UNION {[1..n -> Elements] : n \in 0..MaxElems}

Markup(title, body) == [kind |-> "markup", title |-> title, body |-> body]
EmptyContent == [kind |-> "empty", title |-> None, body |-> <<>>]        \* ""
RejectedContent == [kind |-> "rejected", title |-> None, body |-> <<>>]  \* the parser raises

Contents ==
    {Markup(t, b) : t \in {None, T_Breaking}, b \in Bodies}
    \cup {EmptyContent, RejectedContent}

SelectorLists ==
    { <<SelPromo>>, <<SelPromo, SelHeadline>>, <<SelHeadline, SelAnyPromo>>,
      <<SelH2>>, <<SelHeadline, SelBad>>, <<SelBad>> }

\* all orders in which the elements of a finite set can be listed
RECURSIVE Orders(_)
Orders(S) ==
    IF S = {} THEN {<<>>}
    ELSE UNION {{<<x>> \o o : o \in Orders(S \ {x})} : x \in S}

Truthy(v) == v # None /\ v # NoTag /\ v # <<>>

ValidHtmlText_ge(text) == text # <<>> /\ Len(text) >= 10

\* if text and len(text) > 10
ValidHtmlText(text) == text # <<>> /\ Len(text) > 10

\* if not text or len(text) <= 5 or not url: continue
SkipsElem(text, href) == text = <<>> \/ Len(text) <= 5 \/ ~Truthy(href)

\* the href lookup of parse_html_content (lines 167-178)
LinkRaw(e) ==
    IF e.name = "a" THEN e.href
    ELSE IF Truthy(e.parentA) THEN e.parentA
    ELSE IF Truthy(e.childA) THEN e.childA
    ELSE None

InitExtract ==
    /\ prog \in {"extract_headlines", "parse_html_content"}
    /\ content \in Contents
    /\ selectors \in SelectorLists
    /\ selIdx = 1
    /\ elements = <<>>
    /\ elemIdx = 1
    /\ headlines = <<>>
    /\ headlines_data = {}
    /\ xraised = FALSE
    /\ xpc = "start"
    /\ xresult = <<>>

\* ------------------------------------------------------------------------
\* NewsScraper.parse_html_content
\* ------------------------------------------------------------------------
\* the except branch: logger.error(...); falls through to "return headlines"
ParseExcept(hs) ==
    /\ xraised' = TRUE
    /\ xpc' = "done"
    /\ xresult' = hs

\* soup = BeautifulSoup(content, 'html.parser')
ParseStart ==
    /\ prog = "parse_html_content"
    /\ xpc = "start"
    /\ IF content.kind = "rejected"
       THEN ParseExcept(headlines)
       ELSE xpc' = "select" /\ UNCHANGED <<xraised, xresult>>
    /\ UNCHANGED <<prog, content, selectors, selIdx, elements, elemIdx,
                   headlines, headlines_data>>

\* for selector in ...: elements = soup.select(selector)
ParseSelect ==
    /\ prog = "parse_html_content"
    /\ xpc = "select"
    /\ selIdx <= Len(selectors)
    /\ IF SelectRaises(selectors[selIdx])
       THEN ParseExcept(headlines) /\ UNCHANGED <<selIdx, elements, elemIdx>>
       ELSE LET found == Select(content.body, selectors[selIdx])
            IN /\ elements' = found
               /\ elemIdx' = 1
               /\ IF found = <<>>
                  THEN selIdx' = selIdx + 1 /\ xpc' = "select"
                  ELSE selIdx' = selIdx /\ xpc' = "elems"
               /\ UNCHANGED <<xraised, xresult>>
    /\ UNCHANGED <<prog, content, selectors, headlines, headlines_data>>

\* one iteration of "for element in elements"
ParseElem ==
    /\ prog = "parse_html_content"
    /\ xpc = "elems"
    /\ elemIdx <= Len(elements)
    /\ LET element == elements[elemIdx]
           text == Strip(get_text(element.nodes))
           link_raw == LinkRaw(element)
           link == IF Truthy(link_raw) THEN urljoin(SourceUrl, link_raw) ELSE <<>>
           last == elemIdx = Len(elements)
       IN IF ValidHtmlText(text) /\ Truthy(link_raw) /\ urljoinRaises(SourceUrl, link_raw)
          THEN ParseExcept(headlines) /\ UNCHANGED <<headlines, selIdx, elemIdx>>
          ELSE /\ headlines' =
                    IF ValidHtmlText(text)
                    THEN Append(headlines,
                                [title |-> text, link |-> link, source |-> SourceUrl,
                                 type |-> "html", selector |-> selectors[selIdx]])
                    ELSE headlines
               /\ elemIdx' = elemIdx + 1
               /\ selIdx' = IF last THEN selIdx + 1 ELSE selIdx
               /\ xpc' = IF last THEN "select" ELSE "elems"
               /\ UNCHANGED <<xraised, xresult>>
    /\ UNCHANGED <<prog, content, selectors, elements, headlines_data>>

\* the loops are over: return headlines
ParseReturn ==
    /\ prog = "parse_html_content"
    /\ xpc = "select"
    /\ selIdx > Len(selectors)
    /\ xpc' = "done"
    /\ xresult' = headlines
    /\ UNCHANGED <<prog, content, selectors, selIdx, elements, elemIdx,
                   headlines, headlines_data, xraised>>

\* ------------------------------------------------------------------------
\* NewsHeadlineScraper.extract_headlines
\* ------------------------------------------------------------------------
\* except Exception: logger.error(...); return []
ExtractExcept ==
    /\ xraised' = TRUE
    /\ xpc' = "done"
    /\ xresult' = <<>>

\* if not html_content: return []; soup = BeautifulSoup(...)
ExtractStart ==
    /\ prog = "extract_headlines"
    /\ xpc = "start"
    /\ IF content.kind = "empty"
       THEN xpc' = "done" /\ xresult' = <<>> /\ UNCHANGED xraised
       ELSE IF content.kind = "rejected"
       THEN ExtractExcept
       ELSE xpc' = "select" /\ UNCHANGED <<xraised, xresult>>
    /\ UNCHANGED <<prog, content, selectors, selIdx, elements, elemIdx,
                   headlines, headlines_data>>

\* for selector in self.selectors: elements = soup.select(selector)
ExtractSelect ==
    /\ prog = "extract_headlines"
    /\ xpc = "select"
    /\ selIdx <= Len(selectors)
    /\ IF SelectRaises(selectors[selIdx])
       THEN ExtractExcept /\ UNCHANGED <<selIdx, elements, elemIdx>>
       ELSE LET found == Select(content.body, selectors[selIdx])
            IN /\ elements' = found
               /\ elemIdx' = 1
               /\ IF found = <<>>
                  THEN selIdx' = selIdx + 1 /\ xpc' = "select"
                  ELSE selIdx' = selIdx /\ xpc' = "elems"
               /\ UNCHANGED <<xraised, xresult>>
    /\ UNCHANGED <<prog, content, selectors, headlines, headlines_data>>

\* one iteration of "for elem in elements"
ExtractElem ==
    /\ prog = "extract_headlines"
    /\ xpc = "elems"
    /\ elemIdx <= Len(elements)
    /\ LET elem == elements[elemIdx]
           text == get_text_strip(elem.nodes)
           href == elem.href
           absolute_url == urljoin(SourceUrl, href)
           last == elemIdx = Len(elements)
       IN IF ~SkipsElem(text, href) /\ urljoinRaises(SourceUrl, href)
          THEN ExtractExcept /\ UNCHANGED <<headlines_data, selIdx, elemIdx>>
          ELSE /\ headlines_data' =
                    IF ~SkipsElem(text, href) /\ StartsWithHttp(absolute_url)
                    THEN headlines_data \cup {<<text, absolute_url>>}
                    ELSE headlines_data
               /\ elemIdx' = elemIdx + 1
               /\ selIdx' = IF last THEN selIdx + 1 ELSE selIdx
               /\ xpc' = IF last THEN "select" ELSE "elems"
               /\ UNCHANGED <<xraised, xresult>>
    /\ UNCHANGED <<prog, content, selectors, elements, headlines>>

\* return [{'text': text, 'url': url} for text, url in headlines_data]:
\* the iteration order of a set of strings is not fixed by the program
ExtractReturn ==
    /\ prog = "extract_headlines"
    /\ xpc = "select"
    /\ selIdx > Len(selectors)
    /\ \E o \in Orders(headlines_data) :
          xresult' = [i \in 1..Len(o) |-> [text |-> o[i][1], url |-> o[i][2]]]
    /\ xpc' = "done"
    /\ UNCHANGED <<prog, content, selectors, selIdx, elements, elemIdx,
                   headlines, headlines_data, xraised>>


\* ------------------------------------------------------------------------
\* Persistence
\* ------------------------------------------------------------------------
MaxHeadlines == 3        \* the list to save has at most MaxHeadlines entries

\* how opening / writing the output file can end; IOError stands for any
\* OSError, ValueError for an exception that is not an OSError
WriteOutcomes == {"ok", "IOError", "ValueError"}

Write(file, outcome) == [file |-> file, outcome |-> outcome]
LogRec(level, msg) == [level |-> level, msg |-> msg]

InitSave ==
    /\ sprog \in {"run_scraper", "main"}
    /\ output_format \in {"txt", "json", "both"}
    /\ nHeadlines \in 0..MaxHeadlines
    /\ fetched \in BOOLEAN
    /\ writes = <<>>
    /\ seen = <<>>
    /\ logged = <<>>
    /\ report = "none"
    /\ spc = IF sprog = "run_scraper" THEN "save_txt" ELSE "main"

\* save_headlines_txt / save_headlines_json: try: write; logger.info(saved)
\* except Exception: logger.error(...).  Both paths return None.
SaveNewsScraper(file, outcome) ==
    /\ writes' = Append(writes, Write(file, outcome))
    /\ logged' = Append(logged,
                        IF outcome = "ok" THEN LogRec("info", "saved")
                        ELSE LogRec("error", "Error saving"))
    /\ seen' = Append(seen, "None")

\* if output_format in ['txt', 'both']: self.save_headlines_txt(...)
RunSaveTxt ==
    /\ sprog = "run_scraper"
    /\ spc = "save_txt"
    /\ IF output_format \in {"txt", "both"}
       THEN \E w \in WriteOutcomes : SaveNewsScraper("txt", w)
       ELSE UNCHANGED <<writes, logged, seen>>
    /\ spc' = "save_json"
    /\ UNCHANGED <<sprog, output_format, nHeadlines, fetched, report>>

\* if output_format in ['json', 'both']: self.save_headlines_json(...)
RunSaveJson ==
    /\ sprog = "run_scraper"
    /\ spc = "save_json"
    /\ IF output_format \in {"json", "both"}
       THEN \E w \in WriteOutcomes : SaveNewsScraper("json", w)
       ELSE UNCHANGED <<writes, logged, seen>>
    /\ spc' = "finish"
    /\ UNCHANGED <<sprog, output_format, nHeadlines, fetched, report>>

\* logger.info("Scraping completed. ..."); return results; main prints the
\* summary and exits normally
RunFinish ==
    /\ sprog = "run_scraper"
    /\ spc = "finish"
    /\ report' = "completed"
    /\ spc' = "done"
    /\ UNCHANGED <<sprog, output_format, nHeadlines, fetched, writes, seen, logged>>

\* main of scraper.py up to the save: fetch failed / nothing extracted
MainNoSave ==
    /\ sprog = "main"
    /\ spc = "main"
    /\ ~fetched \/ nHeadlines = 0
    /\ report' = IF ~fetched THEN "fetch failed" ELSE "no headlines"
    /\ spc' = "done"
    /\ UNCHANGED <<sprog, output_format, nHeadlines, fetched, writes, seen, logged>>

\* output_file = scraper.save_headlines_to_file(headlines) and the prints
\* that follow it.  save_headlines_to_file returns the filename, or None
\* after an IOError; any other exception leaves main.
MainSave ==
    /\ sprog = "main"
    /\ spc = "main"
    /\ fetched /\ nHeadlines > 0
    /\ \E w \in WriteOutcomes :
        /\ writes' = Append(writes, Write("file", w))
        /\ CASE w = "ok" ->
                  /\ logged' = Append(logged, LogRec("info", "saved"))
                  /\ seen' = Append(seen, "filename")
                  /\ report' = "completed successfully"
                  /\ spc' = "done"
             [] w = "IOError" ->
                  /\ logged' = Append(logged, LogRec("error", "Failed to save"))
                  /\ seen' = Append(seen, "None")
                  /\ report' = "completed successfully"
                  /\ spc' = "done"
             [] OTHER ->
                  /\ logged' = logged
                  /\ seen' = Append(seen, "raised")
                  /\ report' = "traceback"
                  /\ spc' = "crashed"
    /\ UNCHANGED <<sprog, output_format, nHeadlines, fetched>>


\* ------------------------------------------------------------------------
\* NewsScraper.run_scraper and scrape_url
\* ------------------------------------------------------------------------
MaxUrls == 2             \* target_urls has at most MaxUrls entries
MaxRunRetries == 2       \* max_retries ranges over 0..MaxRunRetries here
MaxRunElems == 1         \* a fetched page or feed has at most MaxRunElems entries

LowerChar(c) ==
    CASE c = "M" -> "m" [] c = "U" -> "u" [] c = "B" -> "b"
      [] c = "N" -> "n" [] c = "H" -> "h" [] OTHER -> c

\* str.lower()
Lower(s) == [i \in 1..Len(s) |-> LowerChar(s[i])]

\* sub in s
Contains(s, sub) ==
    \E k \in 0..(Len(s) - Len(sub)) : SubSeq(s, k + 1, k + Len(sub)) = sub

\* 'rss' in url.lower() or 'xml' in url.lower()
LooksLikeFeed(u) ==
    Contains(Lower(u), <<"r", "s", "s">>) \/ Contains(Lower(u), <<"x", "m", "l">>)

FeedUrl == <<"h", "t", "t", "p", ":", "/", "/", "x", "/", "x", "M", "l">>
NoSchemeUrl == <<"x", "/", "x">>

\* the urls a configuration lists
RunUrls == {SourceUrl, FeedUrl, NoSchemeUrl}

TargetLists == UNION {[1..n -> RunUrls] : n \in 0..MaxUrls}

\* the pages a server sends for a non-empty body
RunContents ==
    {Markup(t, b) : t \in {None, T_Breaking},
                    b \in UNION {[1..n -> Elements] : n \in 0..MaxRunElems}}
    \cup {RejectedContent}

RunSelectorLists == { <<SelHeadline>>, <<SelHeadline, SelBad>> }

\* <item> elements of a feed: whether item.find('title') finds an element,
\* and its text nodes
Item(found, nodes) == [found |-> found, nodes |-> nodes]

Items == { Item(TRUE, <<T_Rally>>), Item(TRUE, << <<" ">> >>), Item(FALSE, <<>>) }

Feed(items) == [kind |-> "feed", items |-> items]
RejectedFeed == [kind |-> "rejected", items |-> <<>>]

Feeds ==
    {Feed(i) : i \in UNION {[1..n -> Items] : n \in 0..MaxRunElems}}
    \cup {RejectedFeed}

\* _safe_get_text(item.find('title'))
safe_get_text(element) ==
    IF element.found THEN get_text_strip(element.nodes) ELSE <<>>

\* parse_rss_feed: one record per item that has a title; [] when the parser
\* raises
RECURSIVE parse_rss_feed(_, _)
parse_rss_feed(items, source) ==
    IF items = <<>> THEN <<>>
    ELSE LET title_text == safe_get_text(Head(items))
             rest == parse_rss_feed(Tail(items), source)
         IN IF title_text # <<>>
            THEN <<[title |-> title_text, link |-> <<>>, source |-> source,
                    type |-> "rss", selector |-> Selector("item", "")]>> \o rest
            ELSE rest

Visit(list, fetchFailed, parseFailed) ==
    [list |-> list, fetchFailed |-> fetchFailed, parseFailed |-> parseFailed]

InitRun ==
    /\ target_urls \in TargetLists
    /\ urlIdx = 1
    /\ visited = <<>>
    /\ perUrl = <<>>
    /\ all_headlines = <<>>
    /\ results = <<>>
    /\ pauses = 0
    /\ rpc = "loop"
    \* configuration
    /\ max_retries \in 0..MaxRunRetries
    /\ retry_delay = 1
    /\ selectors \in RunSelectorLists
    /\ output_format \in {"txt", "json", "both"}
    \* nothing else is running
    /\ url = <<>> /\ attempt = 0 /\ responses = <<>> /\ delays = <<>>
    /\ log = <<>> /\ fpc = "idle" /\ fresult = ReturnNone
    /\ prog = "none" /\ content = EmptyContent /\ selIdx = 1
    /\ elements = <<>> /\ elemIdx = 1 /\ headlines = <<>>
    /\ headlines_data = {} /\ xraised = FALSE /\ xpc = "idle" /\ xresult = <<>>
    /\ sprog = "none" /\ nHeadlines = 0 /\ fetched = FALSE /\ writes = <<>>
    /\ seen = <<>> /\ logged = <<>> /\ report = "none" /\ spc = "idle"

\* for url in target_urls: headlines = self.scrape_url(url), which starts
\* with content = self.fetch_content(url)
RunStartUrl ==
    /\ rpc = "loop"
    /\ urlIdx <= Len(target_urls)
    /\ url' = target_urls[urlIdx]
    /\ visited' = Append(visited, target_urls[urlIdx])
    /\ attempt' = 0 /\ responses' = <<>> /\ delays' = <<>> /\ log' = <<>>
    /\ fpc' = "start" /\ fresult' = ReturnNone
    /\ rpc' = "fetch"
    /\ UNCHANGED <<max_retries, retry_delay, extractVars, saveVars,
                   target_urls, urlIdx, perUrl, all_headlines, results, pauses>>

\* scrape_url: if not content: return []
RunNoContent ==
    /\ rpc = "fetch"
    /\ fpc = "done"
    /\ fresult.none \/ fresult.text = ""
    /\ xresult' = <<>>
    /\ xraised' = FALSE
    /\ xpc' = "done"
    /\ rpc' = "parsed"
    /\ UNCHANGED <<fetchVars, saveVars, prog, content, selectors, selIdx,
                   elements, elemIdx, headlines, headlines_data,
                   target_urls, urlIdx, visited, perUrl, all_headlines,
                   results, pauses>>

\* scrape_url: return self.parse_rss_feed(content, url)
RunParseRss ==
    /\ rpc = "fetch"
    /\ fpc = "done"
    /\ ~(fresult.none \/ fresult.text = "")
    /\ LooksLikeFeed(url)
    /\ \E feed \in Feeds :
          /\ xraised' = (feed.kind = "rejected")
          /\ xresult' = parse_rss_feed(feed.items, url)
    /\ prog' = "parse_rss_feed"
    /\ xpc' = "done"
    /\ rpc' = "parsed"
    /\ UNCHANGED <<fetchVars, saveVars, content, selectors, selIdx,
                   elements, elemIdx, headlines, headlines_data,
                   target_urls, urlIdx, visited, perUrl, all_headlines,
                   results, pauses>>

\* scrape_url: return self.parse_html_content(content, url); the call is
\* entered here and runs through ParseStart .. ParseReturn
RunParseHtml ==
    /\ rpc = "fetch"
    /\ fpc = "done"
    /\ ~(fresult.none \/ fresult.text = "")
    /\ ~LooksLikeFeed(url)
    /\ content' \in RunContents
    /\ prog' = "parse_html_content"
    /\ selIdx' = 1 /\ elements' = <<>> /\ elemIdx' = 1 /\ headlines' = <<>>
    /\ xraised' = FALSE /\ xpc' = "start" /\ xresult' = <<>>
    /\ rpc' = "parse"
    /\ UNCHANGED <<fetchVars, saveVars, selectors, headlines_data,
                   target_urls, urlIdx, visited, perUrl, all_headlines,
                   results, pauses>>

\* all_headlines.extend(headlines); results[url] = headlines; time.sleep(1)
RunCollect ==
    /\ rpc \in {"parse", "parsed"}
    /\ xpc = "done"
    /\ all_headlines' = all_headlines \o xresult
    /\ results' = Append(SelectSeq(results, LAMBDA e : e.url # url),
                         [url |-> url, headlines |-> xresult])
    /\ perUrl' = Append(perUrl, Visit(xresult, fresult.none, xraised))
    /\ pauses' = pauses + 1
    /\ urlIdx' = urlIdx + 1
    /\ rpc' = "loop"
    \* the calls have returned
    /\ url' = <<>> /\ attempt' = 0 /\ responses' = <<>> /\ delays' = <<>>
    /\ log' = <<>> /\ fpc' = "idle" /\ fresult' = ReturnNone
    /\ prog' = "none" /\ content' = EmptyContent /\ selIdx' = 1
    /\ elements' = <<>> /\ elemIdx' = 1 /\ headlines' = <<>>
    /\ xraised' = FALSE /\ xpc' = "idle" /\ xresult' = <<>>
    /\ UNCHANGED <<max_retries, retry_delay, selectors, headlines_data,
                   saveVars, target_urls, visited>>

\* the loop is over: the save step of run_scraper begins
RunLoopDone ==
    /\ rpc = "loop"
    /\ urlIdx > Len(target_urls)
    /\ sprog' = "run_scraper"
    /\ nHeadlines' = Len(all_headlines)
    /\ spc' = "save_txt"
    /\ rpc' = "save"
    /\ UNCHANGED <<fetchVars, extractVars, output_format, fetched, writes,
                   seen, logged, report, target_urls, urlIdx, visited, perUrl,
                   all_headlines, results, pauses>>

\* ------------------------------------------------------------------------
\* Specifications: each runs one component, the others stay idle
\* ------------------------------------------------------------------------
IdleFetch ==
    /\ url = <<>> /\ max_retries = 0 /\ retry_delay = 1 /\ attempt = 0
    /\ responses = <<>> /\ delays = <<>> /\ log = <<>>
    /\ fpc = "idle" /\ fresult = ReturnNone

IdleExtract ==
    /\ prog = "none" /\ content = EmptyContent /\ selectors = <<>>
    /\ selIdx = 1 /\ elements = <<>> /\ elemIdx = 1 /\ headlines = <<>>
    /\ headlines_data = {} /\ xraised = FALSE /\ xpc = "idle" /\ xresult = <<>>

IdleSave ==
    /\ sprog = "none" /\ output_format = "both" /\ nHeadlines = 0
    /\ fetched = FALSE /\ writes = <<>> /\ seen = <<>> /\ logged = <<>>
    /\ report = "none" /\ spc = "idle"

IdleRun ==
    /\ target_urls = <<>> /\ urlIdx = 1 /\ visited = <<>> /\ perUrl = <<>>
    /\ all_headlines = <<>> /\ results = <<>> /\ pauses = 0 /\ rpc = "idle"

Init == InitFetch /\ IdleExtract /\ IdleSave /\ IdleRun
Next ==
    \/ FetchValidate /\ UNCHANGED <<extractVars, saveVars, runVars>>
    \/ FetchAttempt /\ UNCHANGED <<extractVars, saveVars, runVars>>
    \/ FetchExhausted /\ UNCHANGED <<extractVars, saveVars, runVars>>
Spec == Init /\ [][Next]_vars

InitX == InitExtract /\ IdleFetch /\ IdleSave /\ IdleRun
NextX ==
    \/ ParseStart /\ UNCHANGED <<fetchVars, saveVars, runVars>>
    \/ ParseSelect /\ UNCHANGED <<fetchVars, saveVars, runVars>>
    \/ ParseElem /\ UNCHANGED <<fetchVars, saveVars, runVars>>
    \/ ParseReturn /\ UNCHANGED <<fetchVars, saveVars, runVars>>
    \/ ExtractStart /\ UNCHANGED <<fetchVars, saveVars, runVars>>
    \/ ExtractSelect /\ UNCHANGED <<fetchVars, saveVars, runVars>>
    \/ ExtractElem /\ UNCHANGED <<fetchVars, saveVars, runVars>>
    \/ ExtractReturn /\ UNCHANGED <<fetchVars, saveVars, runVars>>
SpecExtract == InitX /\ [][NextX]_vars

InitS == InitSave /\ IdleFetch /\ IdleExtract /\ IdleRun
NextS ==
    \/ RunSaveTxt /\ UNCHANGED <<fetchVars, extractVars, runVars>>
    \/ RunSaveJson /\ UNCHANGED <<fetchVars, extractVars, runVars>>
    \/ RunFinish /\ UNCHANGED <<fetchVars, extractVars, runVars>>
    \/ MainNoSave /\ UNCHANGED <<fetchVars, extractVars, runVars>>
    \/ MainSave /\ UNCHANGED <<fetchVars, extractVars, runVars>>
SpecSave == InitS /\ [][NextS]_vars

\* run_scraper as a whole: the url loop, with fetch_content and the parse
\* functions running inside it, then the save step
NextR ==
    \/ RunStartUrl
    \/ FetchValidate /\ UNCHANGED <<extractVars, saveVars, runVars>>
    \/ FetchAttempt /\ UNCHANGED <<extractVars, saveVars, runVars>>
    \/ FetchExhausted /\ UNCHANGED <<extractVars, saveVars, runVars>>
    \/ RunNoContent
    \/ RunParseRss
    \/ RunParseHtml
    \/ ParseStart /\ UNCHANGED <<fetchVars, saveVars, runVars>>
    \/ ParseSelect /\ UNCHANGED <<fetchVars, saveVars, runVars>>
    \/ ParseElem /\ UNCHANGED <<fetchVars, saveVars, runVars>>
    \/ ParseReturn /\ UNCHANGED <<fetchVars, saveVars, runVars>>
    \/ RunCollect
    \/ RunLoopDone
    \/ RunSaveTxt /\ UNCHANGED <<fetchVars, extractVars, runVars>>
    \/ RunSaveJson /\ UNCHANGED <<fetchVars, extractVars, runVars>>
    \/ RunFinish /\ UNCHANGED <<fetchVars, extractVars, runVars>>
SpecRun == InitRun /\ [][NextR]_vars

\* ------------------------------------------------------------------------
\* Properties of NewsScraper.fetch_content (specification Spec)
\* ------------------------------------------------------------------------
RECURSIVE Pow2(_)
Pow2(n) == IF n = 0 THEN 1 ELSE 2 * Pow2(n - 1)

Last(s) == s[Len(s)]

\* the url parses, and its scheme or its host is missing
LacksSchemeOrHost(u) ==
    LET p == urlparse(u)
    IN ~p.raises /\ (p.scheme = <<>> \/ p.netloc = <<>>)

HasSchemeAndHost(u) ==
    LET p == urlparse(u)
    IN ~p.raises /\ p.scheme # <<>> /\ p.netloc # <<>>

RetryableStatus == {429, 500, 502, 503, 504}

\* connection error, timeout, or a status of the retryable set
Transient(r) == r.kind # "http" \/ r.status \in RetryableStatus

\* a non-success status outside the retryable set
NonRetryable(r) ==
    r.kind = "http" /\ ~(r.status >= 200 /\ r.status < 300)
    /\ r.status \notin RetryableStatus

\* C1: fetch_content gives up on transient failures only after
\* max_retries + 1 GETs, having slept max_retries times; so with
\* max_retries = 3 and answers 503, 503, 503 it is still about to try again.
C1_RetriesAreAdditional ==
    (/\ fpc = "done"
     /\ HasSchemeAndHost(url)
     /\ responses # <<>>
     /\ fresult.none
     /\ \A i \in 1..Len(responses) : Transient(responses[i]))
    => (Len(responses) = max_retries + 1 /\ Len(delays) = max_retries)

\* C2: a response with a non-retryable status is the last event of the
\* fetch: no GET and no sleep follows it, and the fetch ends in failure.
C2_NonRetryableEndsFetch ==
    \A i \in 1..Len(responses) :
        NonRetryable(responses[i])
        => /\ i = Len(responses)
           /\ Last(log) = "GET"
           /\ (fpc = "done" => fresult.none)

C9_DelaysBetweenAttempts ==
    /\ \A i \in 1..Len(log) : log[i] = "SLEEP" => (i > 1 /\ log[i - 1] = "GET")
    /\ Cardinality({i \in 1..Len(log) : log[i] = "SLEEP"}) = Len(delays)
    /\ Cardinality({i \in 1..Len(log) : log[i] = "GET"}) = Len(responses)
    /\ (log # <<>> /\ Last(log) = "SLEEP")
          => (fpc = "loop" /\ attempt < max_retries /\ Failed(Last(responses)))
    /\ \A i \in 1..Len(responses) : ~Failed(responses[i]) =>
          (i = Len(responses) /\ Last(log) = "GET" /\ fpc = "done")
    /\ \/ \A i \in 1..Len(delays) : delays[i] = retry_delay * Pow2(i - 1)
       \/ \A i \in 1..Len(delays) : delays[i] = retry_delay

C9_Witness ==
    /\ fpc = "done"
    /\ Len(delays) >= 2
    /\ Len(responses) = Len(delays) + 1
    /\ retry_delay > 1

\* ------------------------------------------------------------------------
\* Properties of the extraction (specification SpecExtract)
\* ------------------------------------------------------------------------
HeadlineFloor == 5
HtmlFloor == 10

\* the text of a record of either function
TextOf(rec) == IF prog = "extract_headlines" THEN rec.text ELSE rec.title

Texts(recs) == [i \in 1..Len(recs) |-> TextOf(recs[i])]

\* the text the running function reads off an element
ElemText(e) ==
    IF prog = "extract_headlines" THEN get_text_strip(e.nodes)
    ELSE Strip(get_text(e.nodes))

Floor == IF prog = "extract_headlines" THEN HeadlineFloor ELSE HtmlFloor

\* the matches of the selectors 1..n, selector by selector, in document order
RECURSIVE MatchesUpTo(_)
MatchesUpTo(n) ==
    IF n = 0 THEN <<>>
    ELSE MatchesUpTo(n - 1) \o Select(content.body, selectors[n])

NoBadSelector == \A k \in 1..Len(selectors) : ~SelectRaises(selectors[k])

\* C4: no two records of a result have texts that are equal when compared
\* case-insensitively.
C4_CaseInsensitiveUnique ==
    xpc = "done" =>
        \A i, j \in 1..Len(xresult) :
            i < j => Lower(TextOf(xresult[i])) # Lower(TextOf(xresult[j]))

\* the element passes the checks other than the length floor
OtherChecksPass(e) ==
    IF prog = "extract_headlines"
    THEN /\ Truthy(e.href)
         /\ ~urljoinRaises(SourceUrl, e.href)
         /\ StartsWithHttp(urljoin(SourceUrl, e.href))
    ELSE TRUE

\* the texts of the matched elements that pass the floor and the other
\* checks, in discovery order
Discovered ==
    LET ms == SelectSeq(MatchesUpTo(Len(selectors)),
                        LAMBDA e : Len(ElemText(e)) > Floor /\ OtherChecksPass(e))
    IN [i \in 1..Len(ms) |-> ElemText(ms[i])]

\* a sequence with every value kept at its first position only
RECURSIVE FirstOccurrences(_)
FirstOccurrences(s) ==
    IF s = <<>> THEN <<>>
    ELSE LET init == SubSeq(s, 1, Len(s) - 1)
             rest == FirstOccurrences(init)
         IN IF \E k \in 1..Len(init) : init[k] = Last(s)
            THEN rest ELSE Append(rest, Last(s))

CompletedNormally == xpc = "done" /\ ~xraised /\ content.kind = "markup"

\* C5: the texts of a result are the discovered texts in discovery order
\* (selector order, then document order), each at its first occurrence.
C5_DiscoveryOrder ==
    CompletedNormally => Texts(xresult) = FirstOccurrences(Discovered)

\* C6: when no selector matches any element and the document has a title,
\* the result is the single record holding the title; when some selector
\* matched and the floor removed every match, the result is empty.
C6_TitleFallback ==
    (CompletedNormally /\ NoBadSelector) =>
        LET ms == MatchesUpTo(Len(selectors))
        IN /\ (ms = <<>> /\ content.title # None)
                 => Texts(xresult) = <<Strip(content.title)>>
           /\ (ms # <<>> /\ \A k \in 1..Len(ms) : Len(ElemText(ms[k])) <= Floor)
                 => xresult = <<>>

\* C7: when a failure was raised while parsing or scanning, the function
\* returns the empty list.
C7_FailureYieldsEmpty ==
    (xpc = "done" /\ xraised) => xresult = <<>>

\* the matched elements the loops have dealt with so far
Processed ==
    IF xpc = "elems"
    THEN MatchesUpTo(selIdx - 1) \o SubSeq(elements, 1, elemIdx - 1)
    ELSE IF xpc = "select" \/ (xpc = "done" /\ ~xraised /\ content.kind = "markup")
    THEN MatchesUpTo(selIdx - 1)
    ELSE <<>>

\* the texts accepted so far
AcceptedTexts ==
    IF prog = "extract_headlines"
    THEN {p[1] : p \in headlines_data}
    ELSE {headlines[k].title : k \in 1..Len(headlines)}

\* C8: every accepted or returned record has a non-empty text strictly
\* longer than the floor (5 in extract_headlines, 10 in
\* parse_html_content), and every processed element whose text is longer
\* than the floor, and which passes the other checks, has been accepted.
C8_LengthFloor ==
    /\ \A t \in AcceptedTexts : t # <<>> /\ Len(t) > Floor
    /\ \A k \in 1..Len(xresult) :
          TextOf(xresult[k]) # <<>> /\ Len(TextOf(xresult[k])) > Floor
    /\ \A k \in 1..Len(Processed) :
          (Len(ElemText(Processed[k])) > Floor /\ OtherChecksPass(Processed[k]))
             => ElemText(Processed[k]) \in AcceptedTexts

\* a run of each function that met a text below the floor, one just above
\* it, and returned a record
C8_Witness ==
    /\ CompletedNormally
    /\ xresult # <<>>
    /\ \E k \in 1..Len(Processed) : ElemText(Processed[k]) = T_Hi
    /\ \E k \in 1..Len(Processed) :
          Len(ElemText(Processed[k])) = Floor + 1 \/ ElemText(Processed[k]) = T_Rally
    /\ \E k \in 1..Len(xresult) : Len(TextOf(xresult[k])) > HtmlFloor

\* ------------------------------------------------------------------------
\* Properties of the persistence step (specification SpecSave)
\* ------------------------------------------------------------------------
\* what a save call gives back to its caller when the write succeeded
SeenOnSuccess == IF sprog = "main" THEN "filename" ELSE "None"

\* C10: when a write failed, the caller got something different from what
\* a successful save gives, and the run is not reported as completed.
C10_PersistenceFailureSurfaced ==
    (spc \in {"done", "crashed"})
    => \A i \in 1..Len(writes) :
          writes[i].outcome # "ok"
          => /\ seen[i] # SeenOnSuccess
             /\ report \notin {"completed", "completed successfully"}

\* ------------------------------------------------------------------------
\* Properties of NewsScraper.run_scraper (specification SpecRun)
\* ------------------------------------------------------------------------
RECURSIVE ConcatLists(_)
ConcatLists(vs) ==
    IF vs = <<>> THEN <<>> ELSE Head(vs).list \o ConcatLists(Tail(vs))

RunReturned == rpc = "save" /\ spc = "done"

\* every url visited once, in list order, whatever happened before
VisitsInOrder ==
    /\ Len(visited) <= Len(target_urls)
    /\ visited = SubSeq(target_urls, 1, Len(visited))
    /\ RunReturned => visited = target_urls /\ Len(perUrl) = Len(target_urls)

\* a failed fetch or a failed parse contributes the empty list
FailureContributesEmpty ==
    \A i \in 1..Len(perUrl) :
        (perUrl[i].fetchFailed \/ perUrl[i].parseFailed) => perUrl[i].list = <<>>

\* the returned mapping has exactly the target urls as keys, each once, and
\* each entry is the list of a visit of that url
MappingPerUrl ==
    RunReturned =>
        /\ {results[k].url : k \in 1..Len(results)}
              = {target_urls[i] : i \in 1..Len(target_urls)}
        /\ \A j, k \in 1..Len(results) : results[j].url = results[k].url => j = k
        /\ \A k \in 1..Len(results) : \E i \in 1..Len(perUrl) :
              visited[i] = results[k].url /\ perUrl[i].list = results[k].headlines

\* the list handed to the save functions is the concatenation of the
\* per-url lists in target order
SavedIsConcatenation ==
    /\ all_headlines = ConcatLists(perUrl)
    /\ rpc = "save" => nHeadlines = Len(all_headlines)

\* C11: run_scraper visits every target url exactly once and in order
\* whatever the earlier outcomes, a url whose fetch or parse fails
\* contributes the empty list, the mapping has one entry per target url,
\* and the saved list is the concatenation of the per-url lists.
C11_RunVisitsEveryUrl ==
    /\ VisitsInOrder
    /\ FailureContributesEmpty
    /\ MappingPerUrl
    /\ SavedIsConcatenation
====
